---- MODULE Spec2Model ----
(***************************************************************************)
(* Model of the coordination core of urlshortener-go:                      *)
(*   - Store.AddURL / Store.GetURL over the urls table (Postgres),         *)
(*   - URLShortenerService.ShortenURL / GetOriginalURL with the cache-     *)
(*     aside read path and the detached cache warm-up (Redis),             *)
(*   - RateLimiter.Allow, its Lua token-bucket script and the gRPC         *)
(*     interceptor, and the HTTP redirect handler.                         *)
(* Every network call (SQL query, Redis command, script evaluation) is one *)
(* atomic step; what a handler does between two calls is local and is      *)
(* folded into the step of the call that follows it.                       *)
(***************************************************************************)
EXTENDS Integers, Sequences, FiniteSets, TLC

VARIABLES
    urls,       \* table urls: short_code -> <<>> or <<long_url>>
    cache,      \* Redis string keys "<prefix>:<code>": <<>> or <<[value, ttl]>>
    cacheOn,    \* FALSE when the service was built with cache == nil
    warm,       \* detached cache-warming goroutines not yet finished
    req,        \* per request goroutine: position and locals
    bucket,     \* Redis hash of the limiter key: <<>> or <<[tokens, last_refill, ..]>>
    keyed,      \* Redis hashes of the limiter's other keys, by Redis key
    sd,         \* main, the context of the process and Server.Run's goroutines
    cfg,        \* RateLimiterConfig, refill period already in whole seconds
    clock,      \* wall clock, whole seconds
    dbClock,    \* the database server's clock (CURRENT_TIMESTAMP)
    resp,       \* the response delivered by this step, with the request's locals
    hist        \* observations kept for the properties (never read by the code)

vars ==
    <<urls, cache, cacheOn, warm, req, bucket, keyed, sd, cfg, clock, dbClock, resp, hist>>

-----------------------------------------------------------------------------
(* Bounds of the model *)

\* Last second the wall clock reaches.
MaxTime == 2
\* Cache TTL (config.Redis.UrlTTL) in clock ticks.
UrlTTL == 2
\* Detached warm-ups that may be pending at once.
MaxWarm == 1
\* Latest second the clock of an instance shows when clocks differ.
MaxNow == 3

(* Program constants *)

maxRetries == 5
MaxURLLength == 2083
DefaultCapacity == 10
DefaultRefillRate == 40
DefaultRefillPeriod == 1

Procs == {"p1", "p2"}
Codes == {"c1", "c2"}

\* A refill without its cap: not the script's.
MinUncapped(a, b) == b

Min(a, b) == IF a < b THEN a ELSE b

-----------------------------------------------------------------------------
(* Strings.  A string is a sequence of tokens; each token stands for a run *)
(* of characters, so that trimming, the length limit and the scheme test   *)
(* of parseURL operate on the text and not on an opaque value.             *)

TokLen(t) ==
    CASE t = " " -> 1
      [] t = "http://" -> 7
      [] t = "HTTP://" -> 7
      [] t = "https://" -> 8
      [] t = "ftp://" -> 6
      [] t = "ex.com" -> 6
      [] t = "localhost" -> 9
      [] t = "/p" -> 2
      [] t = "/.." -> 3
      [] t = "a*2084" -> 2084
      [] OTHER -> 1

RECURSIVE StrLen(_)
StrLen(s) == IF s = <<>> THEN 0 ELSE TokLen(Head(s)) + StrLen(Tail(s))

RECURSIVE TrimLeft(_)
TrimLeft(s) == IF s # <<>> /\ Head(s) = " " THEN TrimLeft(Tail(s)) ELSE s

RECURSIVE TrimRight(_)
TrimRight(s) ==
    IF s # <<>> /\ s[Len(s)] = " " THEN TrimRight(SubSeq(s, 1, Len(s) - 1)) ELSE s

\* strings.TrimSpace
TrimSpace(s) == TrimRight(TrimLeft(s))

\* url.Parse: the scheme is lower-cased; a text without "scheme:" has none.
IsSchemeTok(t) == t \in {"http://", "https://", "HTTP://", "ftp://"}
ToLower(t) == IF t = "HTTP://" THEN "http://" ELSE t
Scheme(s) == IF s # <<>> /\ IsSchemeTok(Head(s)) THEN ToLower(Head(s)) ELSE ""
\* URL.String(): the parsed URL written back, scheme in lower case.
URLString(s) == IF Scheme(s) = "" THEN s ELSE <<Scheme(s)>> \o Tail(s)
HasTok(s, t) == \E i \in 1..Len(s) : s[i] = t
isLocalhost(s) == HasTok(s, "localhost")

\* A parseURL that accepts every text: not the program's.
parseURLAcceptAll(originalURL) ==
    [err |-> FALSE, url |-> URLString(TrimSpace(originalURL))]

\* parseURL: the error, or the text that ShortenURL hands to AddURL.
parseURL(originalURL) ==
    LET t == TrimSpace(originalURL) IN
    IF t = <<>> THEN [err |-> TRUE, url |-> <<>>]
    ELSE IF StrLen(t) > MaxURLLength THEN [err |-> TRUE, url |-> <<>>]
    ELSE IF Scheme(t) # "http://" /\ Scheme(t) # "https://" THEN [err |-> TRUE, url |-> <<>>]
    ELSE IF HasTok(t, "/..") THEN [err |-> TRUE, url |-> <<>>]
    ELSE IF isLocalhost(t) THEN [err |-> TRUE, url |-> <<>>]
    ELSE [err |-> FALSE, url |-> URLString(t)]

\* Texts a client sends to ShortenURL.
UrlA == <<"http://", "ex.com">>
UrlB == <<" ", "HTTP://", "ex.com", "/p">>
ShortenInputs ==
    { UrlA, UrlB, <<"ex.com">>, <<>>, <<"http://", "a*2084">> }
\* Short codes a client sends to GetOriginalURL ("" is the empty code).
ResolveInputs == Codes \cup {""}

-----------------------------------------------------------------------------
(* Persistent store: table urls (short_code PRIMARY KEY, long_url).        *)
(* A table maps each short code to the sequence of its rows: <<>> or one   *)
(* row, with the columns long_url and created_at.  A query result is the   *)
(* sequence of rows the statement returns.                                 *)

EmptyTable == [c \in Codes |-> <<>>]

\* The statement as it would be with ON CONFLICT (short_code) DO UPDATE:
\* the row is overwritten and returned.  Not the program's statement; it
\* is the variant under which unique allocation is lost.
insertURLDoUpdate(tbl, short_code, long_url, now) ==
    [tbl |-> [tbl EXCEPT ![short_code] =
                 <<[long_url |-> long_url, created_at |-> now]>>],
     rows |-> <<[short_code |-> short_code, long_url |-> long_url,
                 created_at |-> now]>>]

\* INSERT ... ON CONFLICT (short_code) DO NOTHING RETURNING *
\* created_at takes its default, CURRENT_TIMESTAMP, the time now.
insertURL(tbl, short_code, long_url, now) ==
    IF tbl[short_code] = <<>>
    THEN [tbl |-> [tbl EXCEPT ![short_code] =
                      <<[long_url |-> long_url, created_at |-> now]>>],
          rows |-> <<[short_code |-> short_code, long_url |-> long_url,
                      created_at |-> now]>>]
    ELSE [tbl |-> tbl, rows |-> <<>>]

\* The column long_url of a sequence of rows.
LongURLs(rows) == [k \in 1..Len(rows) |-> rows[k].long_url]

\* The query without its WHERE clause, LIMIT 1: not the program's.
getURLAnyRow(tbl, short_code) ==
    LET others == {c \in DOMAIN tbl : c # short_code /\ tbl[c] # <<>>} IN
    IF others # {} THEN LongURLs(tbl[CHOOSE c \in others : TRUE])
    ELSE IF short_code \in DOMAIN tbl THEN LongURLs(tbl[short_code]) ELSE <<>>

\* SELECT long_url FROM urls WHERE short_code = $1
getURL(tbl, short_code) ==
    IF short_code \in DOMAIN tbl THEN LongURLs(tbl[short_code]) ELSE <<>>

\* The loop condition off by one (i <= maxRetries): not the program's.
RetryLeftInclusive(i) == i <= maxRetries

\* AddURL's loop condition: i < maxRetries
RetryLeft(i) == i < maxRetries

\* A loop that draws again when GenerateShortCode fails: not the program's.
DrawErrorIgnored(err) == FALSE

\* shortCode, err := core.GenerateShortCode(); if err != nil { return ... }
DrawFailed(err) == err # ""

\* A loop that takes every error of CollectExactlyOneRow for a collision:
\* not the program's.
IsCollisionAnyError(err) == TRUE

\* errors.Is(err, pgx.ErrNoRows): the insert returned no row, a collision.
IsCollision(err) == err = "pgx.ErrNoRows"

\* The mapping without the case of ErrFailedToAddURL: not the program's.
ShortenStatusInternalOnly(err) == "Internal"

\* ShortenURL's mapping of AddURL's error to a status code.
ShortenStatus(err) ==
    IF err = "ErrFailedToAddURL" THEN "DeadlineExceeded" ELSE "Internal"

\* The mapping without the case of ErrURLNotFound: not the program's.
LoadStatusInternalOnly(err) == "Internal"

\* loadCache's mapping of Store.GetURL's error to a status code.
LoadStatus(err) ==
    IF err = "ErrURLNotFound" THEN "NotFound" ELSE "Internal"

-----------------------------------------------------------------------------
(* Cache: Redis string keys with a TTL counted in clock ticks.             *)

EmptyCache == [c \in Codes |-> <<>>]

\* GET key: the value, the entry's TTL left running (the earlier
\* Cache.GetURL, before the sliding expiration): not the program's.
CacheGetURLPlainGet(ch, key) ==
    IF key \in DOMAIN ch /\ ch[key] # <<>>
    THEN [err |-> "", val |-> ch[key][1].value, ch |-> ch]
    ELSE [err |-> "redis.Nil", val |-> <<>>, ch |-> ch]

\* GETEX key EX ttl: the value and the entry with its TTL reset, or redis.Nil.
CacheGetURL(ch, key) ==
    IF key \in DOMAIN ch /\ ch[key] # <<>>
    THEN [err |-> "", val |-> ch[key][1].value,
          ch |-> [ch EXCEPT ![key] = <<[value |-> ch[key][1].value, ttl |-> UrlTTL]>>]]
    ELSE [err |-> "redis.Nil", val |-> <<>>, ch |-> ch]

\* SET key value EX ttl
CacheSetURL(ch, key, value) ==
    [ch EXCEPT ![key] = <<[value |-> value, ttl |-> UrlTTL]>>]

\* A ShortenURL that puts the new link into the cache (write-through):
\* not the program's.
CacheWrittenByShorten(ch, short_code, long_url) ==
    CacheSetURL(ch, short_code, long_url)

\* The cache after a successful ShortenURL: the call has no statement that
\* uses the cache.
CacheAfterShorten(ch, short_code, long_url) == ch

\* GetOriginalURL: whether the result of getCached is returned as it is;
\* redis.Nil and every other cache error fall through to loadCache.
\* A GetOriginalURL that ignores getCached's error: not the program's.
ServedFromCacheAlways(err) == TRUE

\* A getCached that reports a miss whatever GetURL returned: not the program's.
ServedFromCacheNever(err) == FALSE

ServedFromCache(err) == err = ""

\* One clock tick on the cache: TTLs run down, entries at 0 are gone.
AgeCache(ch) ==
    [c \in Codes |->
        IF ch[c] = <<>> \/ ch[c][1].ttl <= 1 THEN <<>>
        ELSE <<[value |-> ch[c][1].value, ttl |-> ch[c][1].ttl - 1]>>]

-----------------------------------------------------------------------------
(* Rate limiter: the Lua script, evaluated atomically by Redis.            *)

\* A refill whenever the periods are not 0, negative ones too: not the
\* script's.
PeriodsNonZero(elapsed, refill_period) ==
    IF refill_period = 0 THEN elapsed # 0
    ELSE (elapsed \div refill_period) # 0

\* math.floor(elapsed / refill_period) > 0.  With refill_period = 0 the
\* quotient is inf for elapsed > 0 and nan or -inf otherwise.
PeriodsPositive(elapsed, refill_period) ==
    IF refill_period = 0 THEN elapsed > 0
    ELSE (elapsed \div refill_period) > 0

\* A consume that answers without taking the token: not the script's.
ConsumeWithoutDebit(tokens) == [allowed |-> tokens > 0, tokens |-> tokens]

\* "Try to consume one token".
Consume(tokens) ==
    [allowed |-> tokens > 0, tokens |-> IF tokens > 0 THEN tokens - 1 ELSE tokens]

\* A refill that moves last_refill to now: not the script's.
AdvanceToNow(last_refill, periods, refill_period, now) == now

\* last_refill = last_refill + (periods * refill_period)
AdvanceLastRefill(last_refill, periods, refill_period, now) ==
    last_refill + periods * refill_period

\* A script that reads an absent key as an empty bucket: not the program's.
InitialTokensEmpty(capacity) == 0

\* tonumber(bucket[1]) or capacity: the tokens of an absent key.
InitialTokens(capacity) == capacity

\* The script on the stored hash b (<<>> when the key is absent): the
\* answer and the hash it writes, with the expiry it sets.
script(b, capacity, refill_rate, refill_period, now) ==
    LET tokens0 == IF b = <<>> THEN InitialTokens(capacity) ELSE b[1].tokens
        last0 == IF b = <<>> THEN now ELSE b[1].last_refill
        elapsed == now - last0
        refill == PeriodsPositive(elapsed, refill_period)
        periods == IF refill_period = 0 THEN 0 ELSE elapsed \div refill_period
        tokens1 == IF ~refill THEN tokens0
                   ELSE IF refill_period = 0 THEN capacity
                   ELSE Min(capacity, tokens0 + periods * refill_rate)
        last1 == IF refill THEN AdvanceLastRefill(last0, periods, refill_period, now)
                 ELSE last0
        used == Consume(tokens1)
    IN [allowed |-> used.allowed, tokens |-> used.tokens, last_refill |-> last1,
        expire |-> refill_period * 2, refilled |-> refill]

\* Whether a hash written at second b.touched with EXPIRE b.expire may still
\* be there at second t: surely before the expiry second, surely not after
\* it, either way within it (the clock has whole seconds only).
AliveChoices(b, t) ==
    IF b = <<>> THEN {FALSE}
    ELSE IF b[1].expire <= 0 THEN {FALSE}
    ELSE IF t - b[1].touched < b[1].expire THEN {TRUE}
    ELSE IF t - b[1].touched = b[1].expire THEN {TRUE, FALSE}
    ELSE {FALSE}

\* The keys Allow is called with: "global" by the interceptor, and a key
\* of a caller's own.
Keys == {"global", "k1"}

\* NewRateLimiter's default for config.KeyPrefix.
KeyPrefix == "rate_limit:"

\* The Redis keys of the limiter's hashes, and the interceptor's.
RedisKeys == {KeyPrefix \o k : k \in Keys}
GlobalKey == KeyPrefix \o "global"

\* No hash under the other keys.
NoKeyed == [rk \in RedisKeys \ {GlobalKey} |-> <<>>]

\* A limiter that keeps one hash for all its keys: not the program's.
redisKeyShared(prefix, key) == prefix \o "global"

\* redisKey := rl.config.KeyPrefix + key
redisKey(prefix, key) == prefix \o key

\* RateLimiter.Allow's return values from the outcome of Eval.
AllowResult(evalErr, result) ==
    IF evalErr THEN [allowed |-> FALSE, err |-> "ErrRateLimiterInternal"]
    ELSE [allowed |-> (result = 1), err |-> ""]

\* An interceptor that answers Internal for a refused request as for a
\* limiter failure: not the program's.
InterceptorOutcomeAllInternal(allowed, err) ==
    IF err # "" \/ ~allowed THEN "Internal" ELSE "handler"

\* An interceptor that lets the request through when Allow fails: not the
\* program's.
InterceptorOutcomeFailOpen(allowed, err) ==
    IF err # "" THEN "handler"
    ELSE IF ~allowed THEN "ResourceExhausted"
    ELSE "handler"

\* UnaryServerInterceptor: the status it returns, or "handler" when it
\* calls the handler.
InterceptorOutcome(allowed, err) ==
    IF err # "" THEN "Internal"
    ELSE IF ~allowed THEN "ResourceExhausted"
    ELSE "handler"

-----------------------------------------------------------------------------
(* State *)

\* A request reaches the service as a gRPC call (from a gRPC client, or from
\* the HTTP gateway, which is a gRPC client of the same server through
\* gwConn), or through the HTTP redirect handler.
Transports == {"grpc", "redirect"}

\* A request goroutine that handles nothing.
IdleReq ==
    [pc |-> "idle", transport |-> "", op |-> "", text |-> <<>>, code |-> "",
     now |-> 0, allow |-> [allowed |-> FALSE, err |-> ""],
     evaluated |-> FALSE, invoked |-> FALSE, reached |-> FALSE,
     url |-> <<>>, i |-> 0, attempts |-> 0, inserted |-> 0,
     status |-> "", value |-> <<>>, short |-> "",
     cacheErr |-> FALSE, sawEntry |-> FALSE, sawTtl |-> 0, dbCalled |-> FALSE,
     refilled |-> FALSE, randErr |-> FALSE,
     dbErr |-> FALSE, afterMiss |-> FALSE,
     queryTotal |-> [collision |-> 0, success |-> 0, error |-> 0],
     key |-> "",
     http |-> [code |-> 0, location |-> ""]]

\* No response is being delivered.
NoResp == [IdleReq EXCEPT !.pc = "none"]

\* Calls of Allow at one instant t0 on a key created at t0 (phase 1), then
\* calls at one instant t1 at least a refill period later (phase 2).
NoBurst == [phase |-> 0, t0 |-> 0, calls |-> 0, admitted |-> 0,
            t1 |-> 0, calls2 |-> 0, admitted2 |-> 0]

\* Observations for the properties.
InitHist ==
    [okCount |-> 0,                          \* successful AddURL calls
     okCodes |-> {},                         \* the short codes they returned
     allocFrom |-> [c \in Codes |-> <<>>],   \* texts whose ShortenURL returned c
     resolved |-> [c \in Codes |-> {}],      \* values GetOriginalURL returned for c
     missed |-> {},                          \* codes read from the store after a miss, this second
     lastUse |-> [c \in Codes |-> 0],        \* seconds c's cache entry went without a set or a read
     admittedAt |-> [t \in 0..MaxTime |-> 0], \* Allow calls admitted in each second
     refusedAt |-> {},                       \* seconds in which Allow refused a call
     burst |-> NoBurst]                      \* Allow calls on a fresh key at one instant

\* sync.WaitGroup.Add(1) without effect: not the program's.
wgAddNone(n) == n

\* wg.Add(1)
wgAdd(n) == n + 1

\* main before Server.Run: the context of the process is live, no
\* goroutine is registered with the WaitGroup.
Starting ==
    [ctx |-> "live", main |-> "run", wg |-> 0,
     stopper |-> "none", closer |-> "none", serving |-> FALSE,
     stopped |-> FALSE, closed |-> FALSE, stops |-> 0, closes |-> 0]

\* main waiting for the end of the context after Server.Run: the gRPC
\* server serves, and the two shutdown goroutines wait for ctx.Done().
Serving ==
    [Starting EXCEPT !.main = "serve", !.serving = TRUE,
                     !.wg = wgAdd(wgAdd(@)),
                     !.stopper = "waiting", !.closer = "waiting"]

\* The configuration NewServer gives the limiter.
DefaultConfig ==
    [capacity |-> DefaultCapacity, refill_rate |-> DefaultRefillRate,
     refill_period |-> DefaultRefillPeriod]

\* NewRateLimiter takes any configuration.  The smallest one, under which
\* the service throttles its second request of a second:
SmallConfig == [capacity |-> 1, refill_rate |-> 1, refill_period |-> 1]

\* Configurations with capacity above twice the refill of a period, and
\* with a period of more than a second.
SlowConfig == [capacity |-> 3, refill_rate |-> 1, refill_period |-> 1]
LongConfig == [capacity |-> 2, refill_rate |-> 1, refill_period |-> 2]

\* The proportions of the default configuration (a refill of four times
\* the capacity), with a capacity of 2.
FastConfig == [capacity |-> 2, refill_rate |-> 8, refill_period |-> 1]

\* int(rl.config.RefillPeriod.Seconds()): the whole seconds of a period
\* given in milliseconds.
PeriodSeconds(ms) == ms \div 1000

\* A configuration with a refill period of half a second.
SubSecondConfig ==
    [capacity |-> 1, refill_rate |-> 1, refill_period |-> PeriodSeconds(500)]

LimiterConfigs ==
    {DefaultConfig, SmallConfig, SlowConfig, LongConfig, FastConfig, SubSecondConfig}

Init ==
    /\ urls = EmptyTable
    /\ cache = EmptyCache
    /\ cacheOn \in BOOLEAN
    /\ warm = <<>>
    /\ req = [p \in Procs |-> IdleReq]
    /\ bucket = <<>>
    /\ keyed = NoKeyed
    /\ sd = Serving
    /\ cfg \in LimiterConfigs
    /\ clock = 0
    /\ dbClock = 0
    /\ resp = NoResp
    /\ hist = InitHist

\* The goroutine of p goes on with locals r; nothing is delivered.
Goto(p, r) == req' = [req EXCEPT ![p] = r] /\ resp' = NoResp

\* The page the redirect handler sends the root path to.
docsURL == "/docs/"

\* A redirect handler that answers every error with 500: not the program's.
redirectResponseAllErrors(status, value) ==
    IF status = "Docs" THEN [code |-> 302, location |-> docsURL]
    ELSE IF status = "OK" THEN [code |-> 302, location |-> value]
    ELSE [code |-> 500, location |-> ""]

\* redirectHandler's HTTP response: http.Redirect(docsURL, StatusFound)
\* for the empty path, else from the result of Server.GetURL
\* http.Redirect(originalURL, StatusFound), http.NotFound for
\* codes.NotFound, http.Error(StatusInternalServerError) for another error.
redirectResponse(status, value) ==
    IF status = "Docs" THEN [code |-> 302, location |-> docsURL]
    ELSE IF status = "OK" THEN [code |-> 302, location |-> value]
    ELSE IF status = "NotFound" THEN [code |-> 404, location |-> ""]
    ELSE [code |-> 500, location |-> ""]

\* The request of p ends: its response is delivered (through the redirect
\* handler, as that handler's HTTP response) and the goroutine ends.
Done(p, r) ==
    /\ req' = [req EXCEPT ![p] = IdleReq]
    /\ resp' = [r EXCEPT !.pc = "done",
                         !.http = IF r.transport = "redirect"
                                  THEN redirectResponse(r.status, r.value)
                                  ELSE @]

-----------------------------------------------------------------------------
(* Transport *)

\* NewServer installs the interceptor on the gRPC server when cache # nil;
\* redirectHandler calls Server.GetURL, which calls the service itself.
Intercepted(tr) == cacheOn /\ tr = "grpc"

\* A request arrives, drawn from the given transports, operations and
\* arguments.  The interceptor's Allow reads the clock first.
StartIn(p, trs, ops, texts, codes) ==
    /\ req[p].pc = "idle"
    /\ \E tr \in trs, op \in ops, text \in texts \cup {<<>>}, code \in codes \cup {""} :
        /\ op = "ShortenURL" => tr # "redirect" /\ code = ""
        /\ op = "GetOriginalURL" => text = <<>>
        /\ LET r == [IdleReq EXCEPT !.transport = tr, !.op = op, !.text = text,
                                    !.code = code,
                                    !.now = IF Intercepted(tr) THEN clock ELSE 0,
                                    !.afterMiss = (op = "GetOriginalURL" /\ code \in Codes
                                                   /\ code \in hist.missed)]
           IN IF tr = "redirect" /\ code = ""
              THEN Done(p, [r EXCEPT !.status = "Docs"])
              ELSE Goto(p, [r EXCEPT !.pc = IF Intercepted(tr) THEN "allow" ELSE "handler",
                                     !.invoked = ~Intercepted(tr)])
    /\ UNCHANGED <<urls, cache, cacheOn, warm, bucket, keyed, cfg, sd, clock, dbClock, hist>>

Ops == {"ShortenURL", "GetOriginalURL"}

Start(p) == StartIn(p, Transports, Ops, ShortenInputs, ResolveInputs)

\* What Redis keeps after the script: HMSET, then EXPIRE (a timeout of 0
\* deletes the key).
StoredHash(r, t) ==
    IF r.expire <= 0 THEN <<>>
    ELSE <<[tokens |-> r.tokens, last_refill |-> r.last_refill,
            touched |-> t, expire |-> r.expire]>>

\* Eval of the script for a caller that read the clock at `now`.
Eval(now, alive) ==
    script(IF alive THEN bucket ELSE <<>>, cfg.capacity, cfg.refill_rate,
           cfg.refill_period, now)

\* UnaryServerInterceptor: Allow(ctx, "global"), then the handler or a status.
Intercept(p) ==
    /\ req[p].pc = "allow"
    /\ \E up \in BOOLEAN, alive \in AliveChoices(bucket, clock) :
        LET r == Eval(req[p].now, alive)
            res == AllowResult(~up, IF r.allowed THEN 1 ELSE 0)
            out == InterceptorOutcome(res.allowed, res.err)
            q == [req[p] EXCEPT !.allow = res, !.evaluated = TRUE, !.now = 0]
        IN /\ bucket' = IF up THEN StoredHash(r, clock) ELSE bucket
           /\ IF out = "handler"
              THEN Goto(p, [q EXCEPT !.pc = "handler", !.invoked = TRUE])
              ELSE Done(p, [q EXCEPT !.status = out])
    /\ UNCHANGED <<urls, cache, cacheOn, warm, keyed, cfg, sd, clock, dbClock, hist>>

-----------------------------------------------------------------------------
(* RateLimiter.Allow called by a client of the limiter itself *)

One(x) == IF x THEN 1 ELSE 0

\* The burst observation after an Allow call that read the clock at now,
\* was evaluated at second c on a key that was fresh or not, and answered
\* allowed (up: the evaluation returned no error).
BurstAfter(b, c, now, fresh, up, allowed) ==
    IF ~up THEN NoBurst
    ELSE IF b.phase = 1 /\ now = b.t0 /\ c = b.t0
    THEN IF b.calls > cfg.capacity THEN b
         ELSE [b EXCEPT !.calls = @ + 1, !.admitted = @ + One(allowed)]
    ELSE IF b.phase = 1 /\ now = c /\ now >= b.t0 + cfg.refill_period
    THEN [b EXCEPT !.phase = 2, !.t1 = now, !.calls2 = 1, !.admitted2 = One(allowed)]
    ELSE IF b.phase = 2 /\ now = b.t1 /\ c = b.t1
    THEN IF b.calls2 >= Min(cfg.refill_rate, cfg.capacity) THEN b
         ELSE [b EXCEPT !.calls2 = @ + 1, !.admitted2 = @ + One(allowed)]
    ELSE IF fresh /\ now = c
    THEN [NoBurst EXCEPT !.phase = 1, !.t0 = now, !.calls = 1, !.admitted = One(allowed)]
    ELSE NoBurst

\* Allow reads time.Now().Unix().
AllowBegin(p) ==
    /\ req[p].pc = "idle"
    /\ Goto(p, [IdleReq EXCEPT !.pc = "eval", !.op = "Allow", !.now = clock])
    /\ UNCHANGED <<urls, cache, cacheOn, warm, bucket, keyed, cfg, sd, clock, dbClock, hist>>

\* Allow called on an instance whose clock differs from the others': its
\* time.Now().Unix() is any second.
AllowBeginAt(p) ==
    /\ req[p].pc = "idle"
    /\ \E now \in 0..MaxNow :
          Goto(p, [IdleReq EXCEPT !.pc = "eval", !.op = "Allow", !.now = now])
    /\ UNCHANGED <<urls, cache, cacheOn, warm, bucket, keyed, cfg, sd, clock, dbClock, hist>>

\* Eval of the script, and Allow's return.
AllowEnd(p) ==
    /\ req[p].pc = "eval"
    /\ \E up \in BOOLEAN, alive \in AliveChoices(bucket, clock) :
        LET r == Eval(req[p].now, alive)
            res == AllowResult(~up, IF r.allowed THEN 1 ELSE 0)
        IN /\ bucket' = IF up THEN StoredHash(r, clock) ELSE bucket
           /\ Done(p, [req[p] EXCEPT !.allow = res, !.evaluated = TRUE,
                                     !.sawEntry = alive,
                                     !.refilled = (up /\ r.refilled)])
           /\ hist' = [hist EXCEPT
                        !.admittedAt[clock] = @ + One(res.allowed),
                        !.refusedAt = IF up /\ ~res.allowed THEN @ \cup {clock} ELSE @,
                        !.burst = BurstAfter(@, clock, req[p].now, ~alive, up,
                                             res.allowed)]
    /\ UNCHANGED <<urls, cache, cacheOn, warm, keyed, cfg, sd, clock, dbClock>>

\* The hash stored under a Redis key (none under a key never written).
HashAt(rk) ==
    IF rk = GlobalKey THEN bucket
    ELSE IF rk \in DOMAIN keyed THEN keyed[rk]
    ELSE <<>>

\* Allow(ctx, key) called with any of the keys: it reads time.Now().Unix().
AllowKeyBegin(p) ==
    /\ req[p].pc = "idle"
    /\ \E key \in Keys :
          Goto(p, [IdleReq EXCEPT !.pc = "evalKey", !.op = "Allow", !.key = key,
                                  !.now = clock])
    /\ UNCHANGED <<urls, cache, cacheOn, warm, bucket, keyed, cfg, sd, clock, dbClock, hist>>

\* Eval of the script with KEYS[1] = redisKey, and Allow's return.
AllowKeyEnd(p) ==
    /\ req[p].pc = "evalKey"
    /\ LET rk == redisKey(KeyPrefix, req[p].key) IN
       \E up \in BOOLEAN, alive \in AliveChoices(HashAt(rk), clock) :
        LET r == script(IF alive THEN HashAt(rk) ELSE <<>>, cfg.capacity,
                        cfg.refill_rate, cfg.refill_period, req[p].now)
            res == AllowResult(~up, IF r.allowed THEN 1 ELSE 0)
        IN /\ bucket' = IF up /\ rk = GlobalKey THEN StoredHash(r, clock) ELSE bucket
           /\ keyed' = IF up /\ rk # GlobalKey
                       THEN [keyed EXCEPT ![rk] = StoredHash(r, clock)]
                       ELSE keyed
           /\ Done(p, [req[p] EXCEPT !.allow = res, !.evaluated = TRUE,
                                     !.sawEntry = alive,
                                     !.refilled = (up /\ r.refilled)])
           /\ hist' = IF rk # GlobalKey THEN hist
                      ELSE [hist EXCEPT
                             !.burst = BurstAfter(@, clock, req[p].now, ~alive, up,
                                                  res.allowed)]
    /\ UNCHANGED <<urls, cache, cacheOn, warm, cfg, sd, clock, dbClock>>

-----------------------------------------------------------------------------
(* Write path: ShortenURL and Store.AddURL *)

\* ShortenURL up to the call of AddURL: parseURL, then the loop is entered.
HandleShorten(p) ==
    /\ req[p].pc = "handler"
    /\ req[p].op = "ShortenURL"
    /\ LET parsed == parseURL(req[p].text) IN
       IF parsed.err
       THEN Done(p, [req[p] EXCEPT !.status = "InvalidArgument"])
       ELSE IF RetryLeft(0)
       THEN Goto(p, [req[p] EXCEPT !.pc = "insert", !.url = parsed.url, !.i = 0])
       ELSE Done(p, [req[p] EXCEPT !.status = ShortenStatus("ErrFailedToAddURL")])
    /\ UNCHANGED <<urls, cache, cacheOn, warm, bucket, keyed, cfg, sd, clock, dbClock, hist>>

\* dbMetrics.QueryTotal.WithLabelValues("AddURL", status).Inc(), kept as
\* the increments the call of r has made.
QueryTotalInc(r, status) == [r EXCEPT !.queryTotal[status] = @ + 1]

\* AddURL returns an error: ShortenURL maps it.
AddURLFails(p, r, err) ==
    Done(p, [r EXCEPT !.status = ShortenStatus(err)])

\* AddURL after CollectExactlyOneRow returned err: a collision goes on to
\* the next iteration, or ends the loop; any other error is returned.
AddURLCollectFails(p, q, err) ==
    IF IsCollision(err)
    THEN LET c == QueryTotalInc(q, "collision") IN
         IF RetryLeft(c.i + 1)
         THEN Goto(p, [c EXCEPT !.i = @ + 1])
         ELSE AddURLFails(p, [c EXCEPT !.i = @ + 1], "ErrFailedToAddURL")
    ELSE AddURLFails(p, QueryTotalInc(q, "error"), err)

\* One iteration of AddURL's loop: GenerateShortCode, the insert query,
\* CollectExactlyOneRow, and the loop's exit when no iteration is left.
AddURLAttempt(p) ==
    /\ req[p].pc = "insert"
    /\ \/ \* crypto/rand fails
          /\ LET q == [req[p] EXCEPT !.randErr = TRUE] IN
             IF DrawFailed("generateShortCode")
             THEN AddURLFails(p, q, "generateShortCode")
             ELSE IF RetryLeft(q.i + 1)
             THEN Goto(p, [q EXCEPT !.i = @ + 1])
             ELSE AddURLFails(p, [q EXCEPT !.i = @ + 1], "ErrFailedToAddURL")
          /\ UNCHANGED <<urls, cache, hist>>
       \/ \* db.Query fails: store unreachable or context cancelled
          /\ AddURLFails(p, QueryTotalInc([req[p] EXCEPT !.attempts = @ + 1,
                                                         !.reached = TRUE,
                                                         !.dbCalled = TRUE,
                                                         !.dbErr = TRUE], "error"),
                         "insertURL")
          /\ UNCHANGED <<urls, cache, hist>>
       \/ \* the statement runs, reading its result fails
          \E shortCode \in Codes :
            LET ins == insertURL(urls, shortCode, req[p].url, dbClock) IN
            /\ urls' = ins.tbl
            /\ AddURLCollectFails(p, [req[p] EXCEPT !.attempts = @ + 1, !.reached = TRUE,
                                                    !.dbCalled = TRUE, !.dbErr = TRUE,
                                                    !.inserted = @ + Len(ins.rows)],
                                  "collect")
            /\ UNCHANGED <<cache, hist>>
       \/ \* the statement runs and its rows are collected
          \E shortCode \in Codes :
            LET ins == insertURL(urls, shortCode, req[p].url, dbClock)
                q == [req[p] EXCEPT !.attempts = @ + 1, !.reached = TRUE,
                                    !.dbCalled = TRUE]
            IN
            /\ urls' = ins.tbl
            /\ IF ins.rows # <<>>
               THEN /\ Done(p, [QueryTotalInc(q, "success") EXCEPT
                                  !.status = "OK", !.inserted = @ + 1,
                                  !.short = ins.rows[1].short_code])
                    /\ cache' = IF cacheOn
                                THEN CacheAfterShorten(cache, ins.rows[1].short_code,
                                                       ins.rows[1].long_url)
                                ELSE cache
                    /\ hist' = [hist EXCEPT
                                 !.okCount = @ + 1,
                                 !.okCodes = @ \cup {ins.rows[1].short_code},
                                 !.allocFrom[ins.rows[1].short_code] =
                                     Append(@, req[p].text)]
               ELSE /\ AddURLCollectFails(p, q, "pgx.ErrNoRows")
                    /\ UNCHANGED <<cache, hist>>
    /\ UNCHANGED <<cacheOn, warm, bucket, keyed, cfg, sd, clock, dbClock>>

-----------------------------------------------------------------------------
(* Read path: GetOriginalURL, getCached, loadCache, the detached warm-up *)

\* GetOriginalURL up to the result of getCached.
HandleResolve(p) ==
    /\ req[p].pc = "handler"
    /\ req[p].op = "GetOriginalURL"
    /\ IF req[p].code = ""
       THEN /\ Done(p, [req[p] EXCEPT !.status = "InvalidArgument"])
            /\ UNCHANGED <<cache, hist>>
       ELSE IF ~cacheOn
       THEN \* getCached returns redis.Nil without a call
            /\ Goto(p, [req[p] EXCEPT !.pc = "load"])
            /\ UNCHANGED <<cache, hist>>
       ELSE \E up \in BOOLEAN :
            LET got == IF up THEN CacheGetURL(cache, req[p].code)
                       ELSE [err |-> "network", val |-> <<>>, ch |-> cache]
                q == [req[p] EXCEPT !.reached = TRUE, !.cacheErr = ~up,
                                    !.sawEntry = (cache[req[p].code] # <<>>),
                                    !.sawTtl = IF up /\ cache[req[p].code] # <<>>
                                               THEN cache[req[p].code][1].ttl
                                               ELSE 0]
            IN /\ cache' = got.ch
               /\ IF ServedFromCache(got.err)
                  THEN /\ Done(p, [q EXCEPT !.status = "OK", !.value = got.val])
                       /\ hist' = [hist EXCEPT !.resolved[req[p].code] = @ \cup {got.val},
                                               !.lastUse[req[p].code] = 0]
                  ELSE /\ Goto(p, [q EXCEPT !.pc = "load"])
                       /\ UNCHANGED hist
    /\ UNCHANGED <<urls, cacheOn, warm, bucket, keyed, cfg, sd, clock, dbClock>>

\* The seconds the warm-up goroutine gives its context.
WarmUpTimeout == 2

\* A warm-up context made by context.WithoutCancel alone, without a
\* deadline: not the program's.
bgCtxNoDeadline(timeout) == <<>>

\* context.WithTimeout(bgCtx, 2*time.Second): the deadline of bgCtx,
\* counted from the goroutine's start.
bgCtxDeadline(timeout) == <<timeout>>

\* loadCache: Store.GetURL, the response, and the goroutine that warms
\* the cache.
LoadCache(p) ==
    /\ req[p].pc = "load"
    /\ \E up \in BOOLEAN :
        LET rows == getURL(urls, req[p].code)
            q == [req[p] EXCEPT !.reached = TRUE, !.dbCalled = TRUE, !.dbErr = ~up]
        IN IF ~up
           THEN /\ Done(p, [q EXCEPT !.status = LoadStatus("store: GetURL")])
                /\ UNCHANGED <<warm, hist>>
           ELSE IF rows = <<>>
           THEN /\ Done(p, [q EXCEPT !.status = LoadStatus("ErrURLNotFound")])
                /\ UNCHANGED <<warm, hist>>
           ELSE /\ cacheOn => Len(warm) < MaxWarm
                /\ Done(p, [q EXCEPT !.status = "OK", !.value = rows[1]])
                /\ warm' = IF cacheOn
                           THEN Append(warm, [key |-> req[p].code, value |-> rows[1],
                                              ctxCancelled |-> FALSE,
                                              deadline |-> bgCtxDeadline(WarmUpTimeout)])
                           ELSE warm
                /\ hist' = [hist EXCEPT !.resolved[req[p].code] = @ \cup {rows[1]},
                                        !.missed =
                                            IF cacheOn THEN @ \cup {req[p].code} ELSE @]
    /\ UNCHANGED <<urls, cache, cacheOn, bucket, keyed, cfg, sd, clock, dbClock>>

RemoveAt(s, i) == SubSeq(s, 1, i - 1) \o SubSeq(s, i + 1, Len(s))

\* The context of the request whose loadCache started warm-up i is
\* cancelled: the handler has returned (gRPC and net/http cancel the
\* request context then), or the client went away.
CtxCancel(i) ==
    /\ i \in 1..Len(warm)
    /\ ~warm[i].ctxCancelled
    /\ warm' = [warm EXCEPT ![i].ctxCancelled = TRUE]
    /\ resp' = NoResp
    /\ UNCHANGED <<urls, cache, cacheOn, req, bucket, keyed, cfg, sd, clock, dbClock, hist>>

\* A warm-up that passes the request context on to SetURL: not the program's.
bgCtxOfRequest(ctxCancelled) == ctxCancelled

\* bgCtx := context.WithoutCancel(ctx): whether bgCtx is cancelled, given
\* whether ctx is.
bgCtxCancelled(ctxCancelled) == FALSE

\* The warm-up goroutine's SetURL succeeds.
WarmSet(i) ==
    /\ i \in 1..Len(warm)
    /\ ~bgCtxCancelled(warm[i].ctxCancelled)
    /\ cache' = CacheSetURL(cache, warm[i].key, warm[i].value)
    /\ warm' = RemoveAt(warm, i)
    /\ hist' = [hist EXCEPT !.lastUse[warm[i].key] = 0]
    /\ resp' = NoResp
    /\ UNCHANGED <<urls, cacheOn, req, bucket, keyed, cfg, sd, clock, dbClock>>

\* The warm-up goroutine's SetURL returns an error of the cache (it is
\* unreachable, or answers with an error); it is logged.
WarmFail(i) ==
    /\ i \in 1..Len(warm)
    /\ warm' = RemoveAt(warm, i)
    /\ resp' = NoResp
    /\ UNCHANGED <<urls, cache, cacheOn, req, bucket, keyed, cfg, sd, clock, dbClock, hist>>

\* The deadline of bgCtx passes before the cache has answered: SetURL
\* returns the context's error, which is logged, and the goroutine ends.
\* (The timer is the runtime's; the clock of this model counts the whole
\* seconds of the limiter and stops at MaxTime, so the timer is not tied
\* to it.)
WarmTimeout(i) ==
    /\ i \in 1..Len(warm)
    /\ warm[i].deadline # <<>>
    /\ warm' = RemoveAt(warm, i)
    /\ resp' = NoResp
    /\ UNCHANGED <<urls, cache, cacheOn, req, bucket, keyed, cfg, sd, clock, dbClock, hist>>

\* Redis evicts a key (maxmemory-policy allkeys-lfu).
CacheEvict(c) ==
    /\ cache[c] # <<>>
    /\ cache' = [cache EXCEPT ![c] = <<>>]
    /\ hist' = [hist EXCEPT !.lastUse[c] = 0]
    /\ resp' = NoResp
    /\ UNCHANGED <<urls, cacheOn, warm, req, bucket, keyed, cfg, sd, clock, dbClock>>

-----------------------------------------------------------------------------
(* Start and shutdown: main and Server.Run *)

\* A step of main or of a shutdown goroutine: no request is touched.
Shutdown(next) ==
    /\ sd' = next
    /\ resp' = NoResp
    /\ UNCHANGED <<urls, cache, cacheOn, warm, req, bucket, keyed, cfg, clock, dbClock, hist>>

\* Server.Run: it returns an error (net.Listen, grpc.NewClient or the
\* gateway's registration failed) and main exits, or it starts Serve and
\* registers the two shutdown goroutines with the WaitGroup.
ServerRun ==
    /\ sd.main = "run"
    /\ \/ Shutdown([sd EXCEPT !.main = "exited"])
       \/ Shutdown([sd EXCEPT !.main = "serve", !.serving = TRUE,
                              !.wg = wgAdd(wgAdd(@)),
                              !.stopper = "waiting", !.closer = "waiting"])

\* SIGINT or SIGTERM: signal.NotifyContext cancels the context.
SignalCancel ==
    /\ sd.ctx = "live"
    /\ sd.main \in {"run", "serve"}
    /\ Shutdown([sd EXCEPT !.ctx = "cancelled"])

\* main: <-ctx.Done()
MainCtxDone ==
    /\ sd.main = "serve" /\ sd.ctx = "cancelled"
    /\ Shutdown([sd EXCEPT !.main = "wait"])

\* main: wg.Wait() returns when the counter is 0.
MainWaitReturns ==
    /\ sd.main = "wait" /\ sd.wg = 0
    /\ Shutdown([sd EXCEPT !.main = "returned"])

\* The first shutdown goroutine: <-ctx.Done(), then GracefulStop is
\* called: the server accepts no new RPC.
StopperBegins ==
    /\ sd.stopper = "waiting" /\ sd.ctx = "cancelled"
    /\ Shutdown([sd EXCEPT !.stopper = "stopping", !.serving = FALSE])

\* GracefulStop returns when the pending RPCs have finished; then the
\* deferred wg.Done().
StopperEnds ==
    /\ sd.stopper = "stopping"
    /\ \A p \in Procs : req[p].pc = "idle"
    /\ Shutdown([sd EXCEPT !.stopper = "done", !.stopped = TRUE,
                           !.stops = @ + 1, !.wg = @ - 1])

\* The second shutdown goroutine: <-ctx.Done(), gwConn.Close(), then the
\* deferred wg.Done().
CloserRuns ==
    /\ sd.closer = "waiting" /\ sd.ctx = "cancelled"
    /\ Shutdown([sd EXCEPT !.closer = "done", !.closed = TRUE,
                           !.closes = @ + 1, !.wg = @ - 1])

-----------------------------------------------------------------------------
(* Time *)

Tick ==
    /\ clock < MaxTime
    /\ clock' = clock + 1
    /\ cache' = AgeCache(cache)
    /\ hist' = [hist EXCEPT
                 !.missed = {},
                 !.lastUse = [c \in Codes |->
                                 IF cache[c] = <<>> THEN @[c] ELSE @[c] + 1]]
    /\ resp' = NoResp
    /\ UNCHANGED <<urls, cacheOn, warm, req, bucket, keyed, cfg, sd, dbClock>>

\* The database server's clock advances.
DbTick ==
    /\ dbClock < MaxTime
    /\ dbClock' = dbClock + 1
    /\ resp' = NoResp
    /\ UNCHANGED <<urls, cache, cacheOn, warm, req, bucket, keyed, cfg, sd, clock, hist>>

-----------------------------------------------------------------------------
(* The service *)

Next ==
    \/ \E p \in Procs : Start(p)
    \/ \E p \in Procs : Intercept(p)
    \/ \E p \in Procs : AllowBegin(p)
    \/ \E p \in Procs : AllowBeginAt(p)
    \/ \E p \in Procs : AllowEnd(p)
    \/ \E p \in Procs : HandleShorten(p)
    \/ \E p \in Procs : AddURLAttempt(p)
    \/ \E p \in Procs : HandleResolve(p)
    \/ \E p \in Procs : LoadCache(p)
    \/ \E i \in 1..MaxWarm : CtxCancel(i)
    \/ \E i \in 1..MaxWarm : WarmSet(i)
    \/ \E i \in 1..MaxWarm : WarmFail(i)
    \/ \E i \in 1..MaxWarm : WarmTimeout(i)
    \/ \E c \in Codes : CacheEvict(c)
    \/ Tick
    \/ DbTick

Spec == Init /\ [][Next]_vars

-----------------------------------------------------------------------------
(* Allocation: service instances without a cache, clients that shorten.   *)

NextAlloc ==
    \/ \E p \in Procs : StartIn(p, {"grpc"}, {"ShortenURL"}, ShortenInputs, {})
    \/ \E p \in Procs : HandleShorten(p)
    \/ \E p \in Procs : AddURLAttempt(p)

InitAlloc == Init /\ cacheOn = FALSE

SpecAlloc == InitAlloc /\ [][NextAlloc]_vars

\* C1: the short codes returned by the successful AddURL calls are as many
\* as the successful calls: no two calls, however interleaved, return the
\* same short code.
UniqueAllocation == Cardinality(hist.okCodes) = hist.okCount

\* Two calls have succeeded, the second after colliding with the first.
UniqueAllocationWitness ==
    /\ resp.pc = "done" /\ resp.op = "ShortenURL" /\ resp.status = "OK"
    /\ resp.attempts > 1
    /\ hist.okCount = 2

\* C5: a ShortenURL call fails with ErrFailedToAddURL (DeadlineExceeded)
\* only after exactly maxRetries insert attempts, none of which inserted a
\* row; and no call makes more than maxRetries attempts.
ExhaustionAfterMaxRetries ==
    /\ (resp.pc = "done" /\ resp.op = "ShortenURL" /\ resp.status = "DeadlineExceeded")
           => (resp.attempts = maxRetries /\ resp.inserted = 0)
    /\ resp.attempts <= maxRetries
    /\ \A p \in Procs : req[p].pc = "insert" => req[p].attempts < maxRetries

\* A call has failed this way.
ExhaustionWitness ==
    /\ resp.pc = "done" /\ resp.op = "ShortenURL"
    /\ resp.status = "DeadlineExceeded"
    /\ resp.attempts = maxRetries

\* C17: a query error or a row-collection error (a cancelled request
\* context among their causes) ends AddURL in the attempt in which it
\* occurs, whichever of the maxRetries attempts that is: the call answers
\* Internal, the failed insert was its last, and no call goes on to another
\* iteration after such an error.
StoreErrorReturnsAtOnce ==
    /\ \A p \in Procs : req[p].pc = "insert" => ~req[p].dbErr
    /\ (resp.pc = "done" /\ resp.op = "ShortenURL" /\ resp.dbErr)
           => (/\ resp.status = "Internal"
               /\ resp.attempts = resp.i + 1
               /\ resp.attempts <= maxRetries)

\* The store fails in the last of the attempts, after collisions.
StoreErrorWitness ==
    /\ resp.pc = "done" /\ resp.op = "ShortenURL" /\ resp.dbErr
    /\ resp.attempts = maxRetries

\* C28: a failure of GenerateShortCode ends the AddURL call in the
\* iteration in which it occurs: the call answers Internal, the inserts it
\* made are those of the collisions before (none for the failed draw, which
\* leaves the table as it is), and no call goes on to another iteration
\* after it.
DrawFailureIsFatal ==
    /\ [](/\ \A p \in Procs : req[p].pc = "insert" => ~req[p].randErr
          /\ (resp.pc = "done" /\ resp.op = "ShortenURL" /\ resp.randErr)
                => (/\ resp.status = "Internal"
                    /\ resp.attempts = resp.i
                    /\ resp.inserted = 0 /\ ~resp.dbErr
                    /\ resp.short = ""))
    /\ [][resp'.randErr => urls' = urls]_vars

\* The draw fails after collisions.
DrawFailureWitness ==
    /\ resp.pc = "done" /\ resp.op = "ShortenURL" /\ resp.randErr
    /\ resp.attempts >= 2

\* The first draw fails: no insert at all.
DrawFailureAtFirst ==
    /\ resp.pc = "done" /\ resp.op = "ShortenURL" /\ resp.randErr
    /\ resp.attempts = 0 /\ ~resp.reached

\* The allocation with its goroutines scheduled: a call inside AddURL's
\* loop takes its next step (the queries return, by answer or by the
\* context's end).
SpecAllocFair == SpecAlloc /\ \A p \in Procs : WF_vars(AddURLAttempt(p))

\* A ShortenURL call has returned a short code.
Shortened ==
    /\ resp.pc = "done" /\ resp.op = "ShortenURL" /\ resp.status = "OK"

\* C29: every call that enters AddURL's loop leaves it, and
\* no AddURL call makes more than maxRetries insert attempts; a
\* successful call has made one attempt more than it met collisions (0 to
\* maxRetries - 1 of them), its last insert is the only one that added a
\* row, and that row, under a short code that had none, is what it returns.
AddURLTerminates ==
    /\ \A p \in Procs : (req[p].pc = "insert") ~> (req[p].pc = "idle")
    /\ [](/\ resp.attempts <= maxRetries
          /\ \A p \in Procs :
                /\ req[p].attempts <= maxRetries
                /\ req[p].pc = "insert" => req[p].attempts < maxRetries
          /\ Shortened =>
                (/\ resp.i \in 0..(maxRetries - 1)
                 /\ resp.attempts = resp.i + 1
                 /\ resp.inserted = 1
                 /\ resp.short \in Codes
                 /\ getURL(urls, resp.short) = <<resp.url>>))
    /\ [][Shortened' =>
            (/\ urls[resp'.short] = <<>>
             /\ \A c \in Codes \ {resp'.short} : urls'[c] = urls[c])]_vars

\* A call that succeeds at its last attempt, after maxRetries - 1 collisions.
AddURLTerminatesWitness ==
    /\ Shortened
    /\ resp.attempts = maxRetries /\ resp.i = maxRetries - 1

\* An AddURL call has returned to ShortenURL.
AddURLReturned ==
    /\ resp.pc = "done" /\ resp.op = "ShortenURL" /\ resp.invoked
    /\ resp.status # "InvalidArgument"

\* Each insert attempt of the returned call was counted once: the
\* collisions as collision, the insert that returned its row as success,
\* the failed query or row collection as error.
AttemptsCountedOnce ==
    AddURLReturned =>
        /\ resp.queryTotal.collision + resp.queryTotal.success
              + resp.queryTotal.error = resp.attempts
        /\ resp.queryTotal.collision = resp.i
        /\ resp.queryTotal.success = (IF resp.status = "OK" THEN 1 ELSE 0)
        /\ resp.queryTotal.error = (IF resp.dbErr THEN 1 ELSE 0)

\* C31: every insert attempt of AddURL is counted once in
\* db_query_total{query_name=AddURL} under one status, and the terminal
\* outcome of every call shows in the counters: a success as one success,
\* an exhaustion as maxRetries collisions, an error as one error.
OutcomeCounted ==
    /\ AttemptsCountedOnce
    /\ AddURLReturned =>
          /\ resp.status = "OK" => resp.queryTotal.success = 1
          /\ resp.status = "DeadlineExceeded"
                => resp.queryTotal.collision = maxRetries
          /\ resp.status = "Internal" => resp.queryTotal.error = 1

\* An AddURL call returns the error of its first draw: nothing was counted.
UncountedError ==
    /\ AddURLReturned /\ resp.status = "Internal"
    /\ resp.queryTotal = [collision |-> 0, success |-> 0, error |-> 0]

-----------------------------------------------------------------------------
(* The table over time: clients that shorten while the database's clock    *)
(* advances, so that rows inserted at different times differ.              *)

NextStore ==
    \/ \E p \in Procs : StartIn(p, {"grpc"}, {"ShortenURL"}, {UrlA, UrlB}, {})
    \/ \E p \in Procs : HandleShorten(p)
    \/ \E p \in Procs : AddURLAttempt(p)
    \/ DbTick

InitStore == Init /\ cacheOn = FALSE /\ cfg = DefaultConfig

SpecStore == InitStore /\ [][NextStore]_vars

\* C18: a row of the table, once there, is the same in every later state
\* (no step changes or removes it), and an insert that collides with it
\* returns no row and leaves it, long_url and created_at, as it was.
RowsImmutable ==
    [][\A c \in Codes : urls[c] # <<>> => urls'[c] = urls[c]]_vars

\* An insert at a later time, of another URL, has collided with a row: the
\* call has made a second attempt while the row is as it was created.
RowsImmutableWitness ==
    \E c \in Codes :
        /\ urls[c] # <<>> /\ urls[c][1].created_at < dbClock
        /\ resp.pc = "done" /\ resp.op = "ShortenURL" /\ resp.status = "OK"
        /\ resp.attempts >= 2 /\ resp.short # c
        /\ resp.url # urls[c][1].long_url

-----------------------------------------------------------------------------
(* The service with one client that shortens over gRPC and one that      *)
(* resolves through the redirect handler, with or without a cache.        *)

NextService ==
    \/ StartIn("p1", {"grpc"}, {"ShortenURL"}, {UrlA, UrlB}, {})
    \/ StartIn("p2", {"redirect"}, {"GetOriginalURL"}, {}, {"c1"})
    \/ \E p \in Procs : Intercept(p)
    \/ \E p \in Procs : HandleShorten(p)
    \/ \E p \in Procs : AddURLAttempt(p)
    \/ \E p \in Procs : HandleResolve(p)
    \/ \E p \in Procs : LoadCache(p)
    \/ \E i \in 1..MaxWarm : CtxCancel(i)
    \/ \E i \in 1..MaxWarm : WarmSet(i)
    \/ \E i \in 1..MaxWarm : WarmFail(i)
    \/ \E i \in 1..MaxWarm : WarmTimeout(i)
    \/ \E c \in Codes : CacheEvict(c)
    \/ Tick

InitService == Init /\ cfg = SmallConfig

SpecService == InitService /\ [][NextService]_vars

\* A GetOriginalURL call has returned a value.
Resolved ==
    /\ resp.pc = "done" /\ resp.op = "GetOriginalURL" /\ resp.status = "OK"

\* C2 as stated: GetOriginalURL of a short code returns exactly the text
\* that was given to the ShortenURL call that returned the code.
RoundTripExact ==
    Resolved =>
        \A k \in 1..Len(hist.allocFrom[resp.code]) :
            resp.value = hist.allocFrom[resp.code][k]

\* C2 as amended: GetOriginalURL of a short code returns the text that was
\* given to the ShortenURL call that returned the code, as parseURL
\* normalises it.
RoundTripNormalised ==
    Resolved =>
        \A k \in 1..Len(hist.allocFrom[resp.code]) :
            resp.value = parseURL(hist.allocFrom[resp.code][k]).url

\* The code came from a text that is not in normal form, and was resolved.
RoundTripWitness ==
    /\ Resolved
    /\ hist.allocFrom[resp.code] = <<UrlB>>
    /\ resp.value # UrlB

\* C6: GetOriginalURL of a non-empty short code that has no row in the
\* store returns NotFound, whatever the cache does, when Store.GetURL is
\* reached without error.
UnknownCodeNotFound ==
    (/\ resp.pc = "done" /\ resp.op = "GetOriginalURL" /\ resp.invoked
     /\ resp.code \in Codes /\ urls[resp.code] = <<>>
     /\ ~resp.dbErr)
        => (resp.status = "NotFound" /\ resp.dbCalled)

\* NotFound with the cache unreachable.
UnknownCodeWitness ==
    /\ resp.pc = "done" /\ resp.op = "GetOriginalURL"
    /\ resp.code \in Codes /\ urls[resp.code] = <<>>
    /\ cacheOn /\ resp.cacheErr
    /\ resp.status = "NotFound"

\* C7 as stated: a GetOriginalURL call that starts after a call for the same
\* code missed the cache, read the store and returned (in the same second,
\* so within the TTL) succeeds without a call of the store.
SecondResolveWithoutStore ==
    (resp.pc = "done" /\ resp.op = "GetOriginalURL" /\ resp.afterMiss)
        => (resp.status = "OK" /\ ~resp.dbCalled)

\* C7 as amended: a GetOriginalURL call that finds the cache reachable and
\* the entry in it (the warm-up's SetURL has completed, the entry has
\* neither expired nor been evicted) succeeds without a call of the store,
\* with the value the earlier calls returned.
WarmResolveWithoutStore ==
    (/\ resp.pc = "done" /\ resp.op = "GetOriginalURL"
     /\ resp.sawEntry /\ ~resp.cacheErr)
        => (/\ resp.status = "OK" /\ ~resp.dbCalled
            /\ hist.resolved[resp.code] = {resp.value})

\* The second call, after the warm-up, served from the cache.
WarmResolveWitness ==
    /\ Resolved
    /\ resp.afterMiss /\ resp.sawEntry /\ ~resp.cacheErr
    /\ ~resp.dbCalled

\* C8: all the GetOriginalURL calls of a short code that succeed return the
\* same value.
ResolveIdempotent ==
    \A c \in Codes : Cardinality(hist.resolved[c]) <= 1

\* A call answered by the store after an earlier call was: the warm-up
\* had failed or not run yet, or the entry was evicted in between.
ResolveIdempotentWitness ==
    /\ Resolved
    /\ resp.dbCalled /\ ~resp.cacheErr
    /\ resp.afterMiss
    /\ hist.resolved[resp.code] = {resp.value}

\* C11: when the cache lookup of a GetOriginalURL call gives no value (no
\* cache, a miss, a network error), the call reads the store and answers
\* what the store lookup gives: the value, NotFound when there is no row,
\* Internal when the store fails; never the cache's error.
CacheErrorFallsBack ==
    (/\ resp.pc = "done" /\ resp.op = "GetOriginalURL" /\ resp.invoked
     /\ resp.code \in Codes
     /\ (resp.cacheErr \/ ~resp.sawEntry))
        => (/\ resp.dbCalled
            /\ IF resp.dbErr THEN resp.status = "Internal"
               ELSE IF getURL(urls, resp.code) = <<>> THEN resp.status = "NotFound"
               ELSE resp.status = "OK" /\ resp.value = getURL(urls, resp.code)[1])

\* The entry is in the cache, the lookup failed on the network, and the
\* call returned the store's value.
CacheErrorWitness ==
    /\ Resolved
    /\ resp.cacheErr /\ resp.sawEntry
    /\ resp.dbCalled /\ ~resp.dbErr

\* C12: sliding expiration.  A cache hit leaves the entry with the whole
\* configured TTL in the same step, so the TTL left of an entry is always
\* UrlTTL less the seconds since it was last set or read; the passage of
\* time removes an entry exactly when that reaches UrlTTL, never earlier;
\* and a Resolve that finds no entry is a miss that reads the store.
SlidingExpiration ==
    /\ [](/\ \A c \in Codes :
               cache[c] # <<>> => cache[c][1].ttl = UrlTTL - hist.lastUse[c]
          /\ (Resolved /\ ~resp.dbCalled)
               => cache[resp.code] = <<[value |-> resp.value, ttl |-> UrlTTL]>>
          /\ (/\ resp.pc = "done" /\ resp.op = "GetOriginalURL" /\ resp.invoked
              /\ resp.code \in Codes /\ ~resp.sawEntry) => resp.dbCalled)
    /\ [][clock' = clock + 1 =>
            \A c \in Codes :
                cache[c] # <<>> =>
                    (cache'[c] = <<>> <=> hist.lastUse[c] = UrlTTL - 1)]_vars

\* A hit on an entry whose TTL had partly run down.
SlidingExpirationWitness ==
    /\ Resolved /\ ~resp.dbCalled
    /\ resp.sawTtl < UrlTTL
    /\ cache[resp.code][1].ttl = UrlTTL

\* A Resolve that misses because the entry went a whole TTL without a read.
ExpiredThenMiss ==
    /\ Resolved /\ resp.dbCalled /\ ~resp.cacheErr /\ ~resp.sawEntry
    /\ hist.lastUse[resp.code] = UrlTTL

\* C13: a warm-up whose request context has been cancelled after the
\* store lookup succeeded is still pending, and its SetURL can still run
\* and put the value read from the store into the cache.
WarmUpSurvivesCancel ==
    \A i \in 1..Len(warm) :
        warm[i].ctxCancelled =>
            ENABLED (/\ WarmSet(i)
                     /\ cache'[warm[i].key] =
                            <<[value |-> warm[i].value, ttl |-> UrlTTL]>>)

\* The request context of a pending warm-up has been cancelled.
WarmUpSurvivesCancelWitness ==
    \E i \in 1..Len(warm) : warm[i].ctxCancelled /\ cache[warm[i].key] = <<>>

\* C14: every cache entry, every value a pending warm-up is about to set,
\* and every value a cache hit returns, is the value the store holds for
\* that short code.
CacheAgreesWithStore ==
    /\ \A c \in Codes :
          cache[c] # <<>> => getURL(urls, c) = <<cache[c][1].value>>
    /\ \A i \in 1..Len(warm) :
          getURL(urls, warm[i].key) = <<warm[i].value>>
    /\ (Resolved /\ ~resp.dbCalled) => getURL(urls, resp.code) = <<resp.value>>

\* A hit on an entry while a second short code has been allocated.
CacheAgreesWitness ==
    /\ Resolved /\ ~resp.dbCalled
    /\ cache[resp.code] # <<>>
    /\ hist.okCount >= 2

\* A GetOriginalURL call whose Cache.GetURL returned a value is answered.
CacheHit ==
    /\ resp.pc = "done" /\ resp.op = "GetOriginalURL"
    /\ resp.sawEntry /\ ~resp.cacheErr

\* C21: a call whose Cache.GetURL returned a value answers that value,
\* without a Store.GetURL call, and the step starts no warm-up and leaves
\* the table as it is.
HitWithoutStore ==
    /\ [](CacheHit => (/\ resp.status = "OK"
                       /\ ~resp.dbCalled
                       /\ cache[resp.code] # <<>>
                       /\ resp.value = cache[resp.code][1].value))
    /\ [][CacheHit' => (warm' = warm /\ urls' = urls)]_vars

\* A hit while the warm-up of an earlier miss is still pending.
HitWithoutStoreWitness ==
    /\ CacheHit
    /\ warm # <<>> /\ warm[1].key = resp.code

\* A GetOriginalURL call whose Store.GetURL found no row or failed is answered.
StoreLookupFailed ==
    /\ resp.pc = "done" /\ resp.op = "GetOriginalURL" /\ resp.dbCalled
    /\ (resp.dbErr \/ getURL(urls, resp.code) = <<>>)

\* C22: a call whose store lookup finds no row answers NotFound, one whose
\* store lookup fails answers Internal; either way after the one lookup,
\* and the answering step starts no warm-up and writes nothing to the
\* cache or the table.
NotFoundIsTerminal ==
    /\ [](StoreLookupFailed =>
             (/\ resp.status = IF resp.dbErr THEN "Internal" ELSE "NotFound"
              /\ resp.value = <<>>))
    /\ [][StoreLookupFailed' =>
             (/\ req[CHOOSE p \in Procs : req'[p] # req[p]].pc = "load"
              /\ warm' = warm /\ cache' = cache /\ urls' = urls)]_vars

\* NotFound for a short code without a row, the cache being there and
\* holding nothing for it afterwards.
NotFoundWitness ==
    /\ StoreLookupFailed /\ ~resp.dbErr /\ resp.status = "NotFound"
    /\ cacheOn /\ ~resp.cacheErr
    /\ cache[resp.code] = <<>> /\ warm = <<>>

\* Internal for a short code that has a row, the store having failed.
StoreErrorNotCached ==
    /\ StoreLookupFailed /\ resp.dbErr /\ resp.status = "Internal"
    /\ cacheOn /\ getURL(urls, resp.code) # <<>>
    /\ cache[resp.code] = <<>> /\ warm = <<>>

\* C23: no step of a ShortenURL call changes a cache entry or starts a
\* warm-up, whether the call succeeds or fails; and the value of every
\* cache entry and of every pending warm-up of a short code is one that a
\* GetOriginalURL of that short code has returned.
WritePathLeavesCache ==
    /\ [](/\ \A c \in Codes :
               cache[c] # <<>> => cache[c][1].value \in hist.resolved[c]
          /\ \A i \in 1..Len(warm) :
               warm[i].value \in hist.resolved[warm[i].key])
    /\ [][(\E p \in Procs : req[p].op = "ShortenURL" /\ req'[p] # req[p])
             => (cache' = cache /\ warm' = warm)]_vars

\* A ShortenURL has returned a short code, the cache being there: it holds
\* an entry of another short code and none of the new one.
WritePathWitness ==
    /\ resp.pc = "done" /\ resp.op = "ShortenURL" /\ resp.status = "OK"
    /\ cacheOn
    /\ cache[resp.short] = <<>>
    /\ \E c \in Codes : cache[c] # <<>>

\* C33: a GetOriginalURL call that read the store after a miss returns
\* the store's value in the step that starts the warm-up: the warm-up of
\* that value is then pending, free to succeed or to fail; and the step
\* that ends a warm-up delivers no response and changes no request, no row
\* and no bucket: it sets the cache entry, or, failing, leaves the cache as
\* it was.
ResponseBeforeWarmUp ==
    /\ []((Resolved /\ resp.dbCalled) =>
            /\ urls[resp.code] # <<>>
            /\ resp.value = urls[resp.code][1].long_url
            /\ cacheOn =>
                  \E i \in 1..Len(warm) :
                      /\ warm[i].key = resp.code /\ warm[i].value = resp.value
                      /\ ~warm[i].ctxCancelled
                      /\ ENABLED WarmSet(i)
                      /\ ENABLED WarmFail(i))
    /\ [][Len(warm') < Len(warm) =>
            /\ resp' = NoResp
            /\ UNCHANGED <<urls, req, bucket, cacheOn, cfg>>
            /\ hist'.resolved = hist.resolved
            /\ \E i \in 1..Len(warm) :
                  /\ warm' = RemoveAt(warm, i)
                  /\ \/ cache' = cache
                     \/ cache' = CacheSetURL(cache, warm[i].key, warm[i].value)]_vars

\* The store's value is returned after a miss, with the warm-up pending,
\* in a second in which an earlier miss's warm-up left no entry.
ResponseBeforeWarmUpWitness ==
    /\ Resolved /\ resp.dbCalled /\ cacheOn
    /\ resp.afterMiss
    /\ Len(warm) = 1 /\ cache[resp.code] = <<>>

\* C38: the redirect handler answers the empty path with 302 to the docs
\* page, the service not having been called; any other path with 302 to
\* the original URL when GetOriginalURL returned it, with 404 when it
\* returned NotFound, and with 500 for its other errors; and these are
\* all its answers.
RedirectMapping ==
    (resp.pc = "done" /\ resp.transport = "redirect") =>
        /\ resp.code = "" =>
              /\ resp.http = [code |-> 302, location |-> "/docs/"]
              /\ ~resp.invoked /\ ~resp.reached /\ ~resp.dbCalled
        /\ resp.code # "" =>
              /\ resp.invoked
              /\ resp.status \in {"OK", "NotFound", "Internal"}
              /\ resp.status = "OK" =>
                    resp.http = [code |-> 302, location |-> resp.value]
              /\ resp.status = "NotFound" => resp.http.code = 404
              /\ resp.status = "Internal" => resp.http.code = 500
        /\ resp.http.code \in {302, 404, 500}
        /\ resp.http.code = 302 => resp.http.location # ""

\* The redirect handler answers 404: the store has no row for the code.
RedirectMappingWitness ==
    /\ resp.pc = "done" /\ resp.transport = "redirect"
    /\ resp.status = "NotFound" /\ resp.http.code = 404
    /\ resp.dbCalled

\* The redirect handler's other answers: the docs page, the original URL,
\* and 500 when the store fails.
RedirectToDocs ==
    resp.pc = "done" /\ resp.transport = "redirect" /\ resp.http.location = docsURL
RedirectFound ==
    /\ resp.pc = "done" /\ resp.transport = "redirect" /\ resp.status = "OK"
    /\ resp.http.code = 302 /\ resp.http.location = resp.value
RedirectError ==
    resp.pc = "done" /\ resp.transport = "redirect" /\ resp.http.code = 500

\* The read path alone: a service with a cache, started on a table that
\* holds a row for c1, and clients that resolve c1 through the redirect
\* handler.
NextWarm ==
    \/ \E p \in Procs : StartIn(p, {"redirect"}, {"GetOriginalURL"}, {}, {"c1"})
    \/ \E p \in Procs : HandleResolve(p)
    \/ \E p \in Procs : LoadCache(p)
    \/ \E i \in 1..MaxWarm : CtxCancel(i)
    \/ \E i \in 1..MaxWarm : WarmSet(i)
    \/ \E i \in 1..MaxWarm : WarmFail(i)
    \/ \E i \in 1..MaxWarm : WarmTimeout(i)
    \/ \E c \in Codes : CacheEvict(c)
    \/ Tick

InitWarm ==
    /\ urls = insertURL(EmptyTable, "c1", parseURL(UrlA).url, 0).tbl
    /\ cache = EmptyCache
    /\ cacheOn = TRUE
    /\ warm = <<>>
    /\ req = [p \in Procs |-> IdleReq]
    /\ bucket = <<>>
    /\ keyed = NoKeyed
    /\ sd = Serving
    /\ cfg = SmallConfig
    /\ clock = 0
    /\ dbClock = 0
    /\ resp = NoResp
    /\ hist = InitHist

SpecWarm == InitWarm /\ [][NextWarm]_vars

\* The read path with the timers of its warm-up goroutines running: the
\* deadline of a pending warm-up passes.  Nothing is assumed of the cache
\* (SetURL may never be answered) nor of the clients.
SpecWarmFair == SpecWarm /\ \A i \in 1..MaxWarm : WF_vars(WarmTimeout(i))

\* C34: every pending warm-up, whether or not the context of its request
\* has been cancelled, has a deadline whose passing ends it, and no warm-up
\* stays pending forever, even if the cache never answers: time and again
\* none is pending, or the oldest pending one ends.
WarmUpFinishes ==
    /\ [](\A i \in 1..Len(warm) :
            /\ warm[i].deadline = <<WarmUpTimeout>>
            /\ ENABLED WarmTimeout(i))
    /\ \/ []<>(warm = <<>>)
       \/ []<><<warm # <<>> /\ warm' = Tail(warm)>>_vars

\* A warm-up is pending after its request's context was cancelled, when
\* the clock has run as far as it goes.
WarmUpFinishesWitness ==
    /\ clock = MaxTime
    /\ \E i \in 1..Len(warm) : warm[i].ctxCancelled /\ warm[i].deadline # <<>>

\* The requests in progress and the one answered in this step.
Requests == {req[p] : p \in Procs} \cup {resp}

\* C9: a request reaches Store.AddURL, Cache.GetURL or Store.GetURL only
\* after Allow was evaluated for it and returned true.
AdmittedBeforeStores ==
    \A r \in Requests :
        r.reached => (r.evaluated /\ r.allow.allowed /\ r.allow.err = "")

\* C10: when the evaluation of the script returns an error, Allow returns
\* (false, ErrRateLimiterInternal), the interceptor answers Internal, and
\* neither the handler nor a store is reached; a request whose handler runs
\* after an evaluation was admitted by it.
LimiterFailsClosed ==
    \A r \in Requests :
        /\ (r.evaluated /\ r.allow.err # "")
              => (/\ r.allow = [allowed |-> FALSE, err |-> "ErrRateLimiterInternal"]
                  /\ r.pc = "done" /\ r.status = "Internal"
                  /\ ~r.invoked /\ ~r.reached)
        /\ (r.evaluated /\ r.invoked) => (r.allow.allowed /\ r.allow.err = "")

\* The interceptor has answered Internal after a failed evaluation.
LimiterFailsClosedWitness ==
    /\ resp.pc = "done" /\ resp.transport = "grpc"
    /\ resp.evaluated /\ resp.allow.err = "ErrRateLimiterInternal"
    /\ resp.status = "Internal"

-----------------------------------------------------------------------------
(* Validation: gRPC clients that send well-formed and malformed requests   *)
(* to a service with or without a cache.                                   *)

NextValidation ==
    \/ StartIn("p1", {"grpc"}, {"ShortenURL"}, ShortenInputs, {})
    \/ StartIn("p2", {"grpc"}, {"GetOriginalURL"}, {}, {"c1"})
    \/ \E p \in Procs : Intercept(p)
    \/ \E p \in Procs : HandleShorten(p)
    \/ \E p \in Procs : AddURLAttempt(p)
    \/ \E p \in Procs : HandleResolve(p)
    \/ \E p \in Procs : LoadCache(p)
    \/ \E i \in 1..MaxWarm : WarmSet(i)
    \/ Tick

InitValidation == Init /\ cfg = SmallConfig

SpecValidation == InitValidation /\ [][NextValidation]_vars

\* The malformed texts of the statement: empty, without an http or https
\* scheme, or longer than MaxURLLength (the text as parseURL measures it,
\* without the white space around it).
Malformed(text) ==
    LET t == TrimSpace(text) IN
    \/ t = <<>>
    \/ Scheme(t) \notin {"http://", "https://"}
    \/ StrLen(t) > MaxURLLength

\* C15: a ShortenURL whose text is malformed returns InvalidArgument
\* without an insert attempt, a GetOriginalURL with the empty short code
\* returns InvalidArgument without a cache or store lookup, and the step
\* that answers InvalidArgument changes neither store, cache nor warm-ups.
ValidationWithoutEffect ==
    /\ [](/\ (/\ resp.pc = "done" /\ resp.invoked
               /\ \/ resp.op = "ShortenURL" /\ Malformed(resp.text)
                  \/ resp.op = "GetOriginalURL" /\ resp.code = "")
                => (/\ resp.status = "InvalidArgument"
                    /\ resp.attempts = 0 /\ resp.inserted = 0
                    /\ ~resp.reached /\ ~resp.dbCalled)
          /\ \A p \in Procs :
                (/\ req[p].pc \notin {"idle", "allow", "handler"}
                 /\ req[p].op = "ShortenURL") => ~Malformed(req[p].text)
          /\ \A p \in Procs :
                (/\ req[p].pc \notin {"idle", "allow", "handler"}
                 /\ req[p].op = "GetOriginalURL") => req[p].code # "")
    /\ [][resp'.status = "InvalidArgument" => UNCHANGED <<urls, cache, warm>>]_vars

\* A ShortenURL without a scheme refused after a row has been stored.
ValidationWitness ==
    /\ resp.pc = "done" /\ resp.op = "ShortenURL" /\ resp.invoked
    /\ resp.text = <<"ex.com">> /\ resp.status = "InvalidArgument"
    /\ hist.okCount > 0

\* A GetOriginalURL with the empty short code refused, the cache holding an entry.
EmptyCodeRefused ==
    /\ resp.pc = "done" /\ resp.op = "GetOriginalURL" /\ resp.invoked
    /\ resp.code = "" /\ resp.status = "InvalidArgument"
    /\ cache["c1"] # <<>>

\* C30: a ShortenURL handler ends in OK with a short code, in
\* InvalidArgument (exactly when parseURL refuses the text), in
\* DeadlineExceeded (exactly when all maxRetries inserts collided) or in
\* Internal (exactly when a query, the reading of its rows or the draw
\* failed); a GetOriginalURL handler ends in OK with a value, in
\* InvalidArgument (exactly for the empty short code), in NotFound
\* (exactly when the store lookup found no row) or in Internal (exactly
\* when the store lookup failed); a cache error is answered by the store.
OnlyTerminalOutcomes ==
    (resp.pc = "done" /\ resp.invoked) =>
        /\ resp.op = "ShortenURL" =>
              /\ resp.status \in {"OK", "InvalidArgument", "DeadlineExceeded", "Internal"}
              /\ resp.status = "OK" <=> resp.short \in Codes
              /\ resp.status = "InvalidArgument" <=> parseURL(resp.text).err
              /\ resp.status = "DeadlineExceeded"
                    <=> (/\ resp.i = maxRetries /\ resp.attempts = maxRetries
                         /\ ~resp.dbErr /\ ~resp.randErr)
              /\ resp.status = "Internal" <=> (resp.dbErr \/ resp.randErr)
        /\ resp.op = "GetOriginalURL" =>
              /\ resp.status \in {"OK", "InvalidArgument", "NotFound", "Internal"}
              /\ resp.status = "OK" <=> resp.value # <<>>
              /\ resp.status = "InvalidArgument" <=> resp.code = ""
              /\ resp.status = "NotFound"
                    <=> (/\ resp.dbCalled /\ ~resp.dbErr
                         /\ getURL(urls, resp.code) = <<>>)
              /\ resp.status = "Internal" <=> resp.dbErr
              /\ resp.cacheErr => resp.dbCalled

\* ShortenURL over gRPC ends in DeadlineExceeded after maxRetries collisions.
OnlyTerminalOutcomesWitness ==
    /\ resp.pc = "done" /\ resp.invoked /\ resp.op = "ShortenURL"
    /\ resp.status = "DeadlineExceeded"
    /\ resp.i = maxRetries

\* GetOriginalURL answers NotFound after a cache error.
CacheErrorAbsorbed ==
    /\ resp.pc = "done" /\ resp.invoked /\ resp.op = "GetOriginalURL"
    /\ resp.cacheErr /\ resp.status = "NotFound"

\* C19: for the requests the interceptor handles, the handler is invoked
\* exactly when Allow returned (true, nil); a request that Allow refused
\* with (false, nil) is answered ResourceExhausted without its handler, a
\* cache or a store being reached; and ResourceExhausted is answered for
\* nothing else, a limiter failure being answered Internal.
RejectedIsResourceExhausted ==
    \A r \in Requests :
        /\ r.evaluated =>
              /\ r.invoked <=> (r.allow.allowed /\ r.allow.err = "")
              /\ (~r.allow.allowed /\ r.allow.err = "")
                    => (/\ r.pc = "done" /\ r.status = "ResourceExhausted"
                        /\ ~r.reached)
              /\ r.allow.err # "" => r.status = "Internal"
        /\ r.status = "ResourceExhausted"
              => (r.evaluated /\ ~r.allow.allowed /\ r.allow.err = "")

\* The interceptor has refused a request for want of a token.
RejectedWitness ==
    /\ resp.pc = "done" /\ resp.transport = "grpc"
    /\ resp.evaluated /\ resp.allow = [allowed |-> FALSE, err |-> ""]
    /\ resp.status = "ResourceExhausted"

-----------------------------------------------------------------------------
(* The limiter alone: clients that call Allow on one key.                 *)

NextLimiter ==
    \/ \E p \in Procs : AllowBegin(p)
    \/ \E p \in Procs : AllowEnd(p)
    \/ Tick

InitLimiter == Init /\ cacheOn = TRUE /\ cfg \in {DefaultConfig, SlowConfig, LongConfig}

SpecLimiter == InitLimiter /\ [][NextLimiter]_vars

RECURSIVE AdmittedIn(_, _)
\* Allow calls admitted in the seconds s..e.
AdmittedIn(s, e) ==
    IF s > e THEN 0 ELSE hist.admittedAt[s] + AdmittedIn(s + 1, e)

\* C3: in every window of seconds s..e the calls admitted are at most
\* capacity + floor(elapsed / refill_period) * refill_rate.
AdmittedWithinBound ==
    \A s \in 0..MaxTime, e \in 0..MaxTime :
        s <= e => AdmittedIn(s, e) <=
                    cfg.capacity + ((e - s) \div cfg.refill_period) * cfg.refill_rate

\* C4: calls of Allow at one instant on a fresh key are admitted up to
\* capacity and the next one is refused (10 and the 11th with capacity 10);
\* a refill period later the first min(refill_rate, capacity) calls of an
\* instant are admitted.
BurstAdmission ==
    /\ hist.burst.phase >= 1
           => hist.burst.admitted = Min(hist.burst.calls, cfg.capacity)
    /\ hist.burst.phase = 2 => hist.burst.admitted2 = hist.burst.calls2

\* With 10/40/1s: 11 calls at one instant, 10 admitted and the 11th refused
\* just now or earlier, then 10 calls admitted a period later.
BurstWitness ==
    /\ cfg = DefaultConfig
    /\ hist.burst.phase = 2
    /\ hist.burst.calls = DefaultCapacity + 1
    /\ hist.burst.admitted = DefaultCapacity
    /\ hist.burst.t1 = hist.burst.t0 + DefaultRefillPeriod
    /\ hist.burst.admitted2 = Min(DefaultRefillRate, DefaultCapacity)

\* C16 as stated: with 10/40/1s, over consecutive seconds of saturating
\* demand (in each of them a call was refused for want of a token) the
\* calls admitted are about 40 a second: at least 40 a second less one
\* burst of 10.
SustainedDefaultRate ==
    cfg = DefaultConfig =>
        \A s \in 0..MaxTime, e \in 0..MaxTime :
            (s <= e /\ \A t \in s..e : t \in hist.refusedAt)
                => AdmittedIn(s, e) >=
                       DefaultRefillRate * (e - s + 1) - DefaultCapacity

\* C32: the Allow calls on the key take effect one at a time, each at its
\* Eval, between its reading of the clock and its return: a call's answer
\* and the hash it leaves are the script's on the hash the call before it
\* left, whatever calls are in flight beside it; so of m calls at one
\* instant on a bucket of n = capacity tokens, overlapping or not,
\* min(n, m) are admitted and n - min(n, m) tokens are left.
TotalOrder ==
    /\ [](hist.burst.phase = 1 =>
            /\ hist.burst.admitted = Min(hist.burst.calls, cfg.capacity)
            /\ bucket # <<>>
            /\ bucket[1].tokens = cfg.capacity - hist.burst.admitted)
    /\ [][\A p \in Procs :
            (req[p].pc = "eval" /\ req'[p].pc = "idle") =>
                /\ \A q \in Procs \ {p} : req'[q] = req[q]
                /\ \E alive \in AliveChoices(bucket, clock) :
                      LET r == script(IF alive THEN bucket ELSE <<>>, cfg.capacity,
                                      cfg.refill_rate, cfg.refill_period, req[p].now)
                      IN \/ /\ resp'.allow = AllowResult(FALSE, One(r.allowed))
                            /\ bucket' = StoredHash(r, clock)
                         \/ /\ resp'.allow = AllowResult(TRUE, 0)
                            /\ bucket' = bucket]_vars

\* A call is refused at the instant at which capacity calls were admitted,
\* while another call of that instant is in flight.
TotalOrderWitness ==
    /\ resp.pc = "done" /\ resp.op = "Allow"
    /\ resp.allow = [allowed |-> FALSE, err |-> ""]
    /\ hist.burst.phase = 1 /\ clock = hist.burst.t0
    /\ hist.burst.calls = cfg.capacity + 1
    /\ hist.burst.admitted = cfg.capacity
    /\ \E q \in Procs : req[q].pc = "eval" /\ req[q].now = hist.burst.t0

-----------------------------------------------------------------------------
(* The limiter called by instances whose clocks differ.                    *)

NextSkew ==
    \/ \E p \in Procs : AllowBeginAt(p)
    \/ \E p \in Procs : AllowEnd(p)
    \/ Tick

InitSkew == Init /\ cacheOn = TRUE /\ cfg \in {FastConfig, SlowConfig, LongConfig}

SpecSkew == InitSkew /\ [][NextSkew]_vars

\* C20: the stored bucket always has 0 <= tokens <= capacity, whatever
\* the timestamps of the Allow calls and however they interleave.
TokensInRange ==
    bucket # <<>> =>
        (0 <= bucket[1].tokens /\ bucket[1].tokens <= cfg.capacity)

\* A call whose clock is behind the bucket's last refill has been refused
\* on the empty bucket.
TokensInRangeWitness ==
    /\ resp.pc = "done" /\ resp.op = "Allow" /\ resp.evaluated
    /\ resp.allow = [allowed |-> FALSE, err |-> ""]
    /\ bucket # <<>> /\ bucket[1].tokens = 0
    /\ resp.now < bucket[1].last_refill

\* A call whose clock is ahead has refilled the bucket up to its capacity.
RefilledAhead ==
    /\ resp.pc = "done" /\ resp.op = "Allow" /\ resp.evaluated
    /\ resp.allow = [allowed |-> TRUE, err |-> ""]
    /\ bucket # <<>> /\ bucket[1].tokens = cfg.capacity - 1
    /\ resp.now > clock /\ hist.refusedAt # {}

\* An Allow call has returned without error, its script having found the
\* key (AllowReturned) or not.
AllowReturned ==
    /\ resp.pc = "done" /\ resp.op = "Allow" /\ resp.evaluated
    /\ resp.allow.err = ""

\* C24: a call that finds the hash with periods = floor((now -
\* last_refill) / refill_period) > 0 leaves, before its token is taken,
\* min(capacity, tokens + periods * refill_rate) tokens, and last_refill
\* advanced by periods * refill_period, so that now - last_refill is then
\* in [0, refill_period); with periods <= 0 the refill changes neither.
RefillArithmetic ==
    [][(AllowReturned' /\ resp'.sawEntry) =>
         LET b == bucket[1]
             now == resp'.now
             periods == (now - b.last_refill) \div cfg.refill_period
             sum == b.tokens + periods * cfg.refill_rate
             taken == IF resp'.allow.allowed THEN 1 ELSE 0
         IN /\ bucket' # <<>>
            /\ IF periods > 0
               THEN /\ bucket'[1].tokens + taken =
                          (IF sum > cfg.capacity THEN cfg.capacity ELSE sum)
                    /\ bucket'[1].last_refill =
                          b.last_refill + periods * cfg.refill_period
                    /\ now - bucket'[1].last_refill >= 0
                    /\ now - bucket'[1].last_refill < cfg.refill_period
               ELSE /\ bucket'[1].tokens + taken = b.tokens
                    /\ bucket'[1].last_refill = b.last_refill]_vars

\* A refill that left a remainder: last_refill has advanced, not to now.
RefillWitness ==
    /\ AllowReturned /\ resp.sawEntry /\ resp.refilled
    /\ bucket # <<>>
    /\ resp.now - bucket[1].last_refill > 0

\* A call whose clock is behind last_refill: no refill.
NoRefillBehind ==
    /\ AllowReturned /\ resp.sawEntry /\ ~resp.refilled
    /\ bucket # <<>>
    /\ resp.now < bucket[1].last_refill

\* C37: a call that finds the key alive leaves last_refill no smaller
\* than it was and no larger than the larger of it and the call's now (a
\* call that makes the key sets it to its now: so last_refill never
\* exceeds the largest now passed); a call whose now is behind last_refill
\* leaves last_refill as it is, adds no token, and takes one exactly when
\* one is there.
LastRefillMonotone ==
    [][/\ (AllowReturned' /\ resp'.sawEntry) =>
            /\ bucket # <<>> /\ bucket' # <<>>
            /\ bucket'[1].last_refill >= bucket[1].last_refill
            /\ bucket'[1].last_refill <=
                  (IF resp'.now > bucket[1].last_refill THEN resp'.now
                   ELSE bucket[1].last_refill)
            /\ resp'.now < bucket[1].last_refill =>
                  /\ bucket'[1].last_refill = bucket[1].last_refill
                  /\ resp'.allow.allowed = (bucket[1].tokens > 0)
                  /\ bucket'[1].tokens =
                        bucket[1].tokens - One(resp'.allow.allowed)
       /\ (AllowReturned' /\ ~resp'.sawEntry) =>
            /\ bucket' # <<>>
            /\ bucket'[1].last_refill = resp'.now]_vars

\* A caller whose clock is behind last_refill has taken a token of the
\* live key.
LastRefillMonotoneWitness ==
    /\ AllowReturned /\ resp.sawEntry
    /\ resp.allow.allowed
    /\ bucket # <<>> /\ resp.now < bucket[1].last_refill

\* The tokens the script of the call just returned had after its refill
\* step, from the hash before the call (an absent key reads as a full
\* bucket refilled now).
TokensAfterRefill ==
    LET tokens0 == IF resp'.sawEntry THEN bucket[1].tokens ELSE cfg.capacity
        last0 == IF resp'.sawEntry THEN bucket[1].last_refill ELSE resp'.now
        periods == (resp'.now - last0) \div cfg.refill_period
        sum == tokens0 + periods * cfg.refill_rate
    IN IF periods <= 0 THEN tokens0
       ELSE IF sum > cfg.capacity THEN cfg.capacity ELSE sum

\* C25: a call that has tokens > 0 after the refill is admitted and
\* stores tokens - 1; one that has 0 is refused and stores 0; either way
\* the hash is written and its expiry is set anew to 2 * refill_period.
ConsumeStep ==
    [][AllowReturned' =>
         /\ bucket' # <<>>
         /\ bucket'[1].expire = 2 * cfg.refill_period
         /\ bucket'[1].touched = clock
         /\ IF TokensAfterRefill > 0
            THEN resp'.allow.allowed /\ bucket'[1].tokens = TokensAfterRefill - 1
            ELSE ~resp'.allow.allowed /\ bucket'[1].tokens = 0]_vars

\* A call refused on the empty bucket, at a time after the key was made:
\* the hash holds 0 tokens and its expiry runs from now.
ConsumeWitness ==
    /\ AllowReturned /\ resp.sawEntry /\ ~resp.allow.allowed
    /\ bucket # <<>> /\ bucket[1].tokens = 0
    /\ clock > 0 /\ bucket[1].touched = clock
    /\ bucket[1].expire = 2 * cfg.refill_period

\* A call admitted with the last token.
LastTokenTaken ==
    /\ AllowReturned /\ resp.sawEntry /\ resp.allow.allowed
    /\ bucket # <<>> /\ bucket[1].tokens = 0

\* C26: a call whose script finds no hash (the key never used, or
\* expired) is admitted and leaves tokens = capacity - 1 and last_refill =
\* now, as a full bucket refilled now would (capacity >= 1).
LazyFullBucket ==
    [][(AllowReturned' /\ ~resp'.sawEntry) =>
         /\ resp'.allow.allowed
         /\ ~resp'.refilled
         /\ bucket' # <<>>
         /\ bucket'[1].tokens = cfg.capacity - 1
         /\ bucket'[1].last_refill = resp'.now]_vars

\* The key had been emptied and has expired: the call that makes it anew
\* is admitted.
LazyFullBucketWitness ==
    /\ AllowReturned /\ ~resp.sawEntry /\ resp.allow.allowed
    /\ hist.refusedAt # {}
    /\ bucket # <<>> /\ bucket[1].tokens = cfg.capacity - 1
    /\ bucket[1].last_refill = resp.now

\* The tokens the hash that was there before the call just returned would
\* have had after the refill step at the call's now, had it not expired.
TokensHadItLived ==
    LET periods == (resp'.now - bucket[1].last_refill) \div cfg.refill_period
        sum == bucket[1].tokens + periods * cfg.refill_rate
    IN IF periods <= 0 THEN bucket[1].tokens
       ELSE IF sum > cfg.capacity THEN cfg.capacity ELSE sum

\* C27 as stated: a call that finds the key expired and makes it anew,
\* full, gives it no more tokens than the expired hash would have had
\* after its refill at that instant.
ExpiryTransparent ==
    [][(AllowReturned' /\ ~resp'.sawEntry /\ bucket # <<>>) =>
         cfg.capacity <= TokensHadItLived]_vars

-----------------------------------------------------------------------------
(* The limiter called with several keys.                                   *)

NextKeys ==
    \/ \E p \in Procs : AllowKeyBegin(p)
    \/ \E p \in Procs : AllowKeyEnd(p)
    \/ Tick

InitKeys == Init /\ cacheOn = TRUE /\ cfg \in {SmallConfig, SlowConfig}

SpecKeys == InitKeys /\ [][NextKeys]_vars

\* C35: a returning Allow(key) leaves the hash of every other key as it
\* was (tokens, last_refill and expiry), and its answer and the hash it
\* writes under keyPrefix + key are the script's on the hash stored under
\* that key alone.
KeysIndependent ==
    [][\A p \in Procs :
        (req[p].pc = "evalKey" /\ req'[p].pc = "idle") =>
            \E rk \in RedisKeys :
            /\ rk = KeyPrefix \o req[p].key
            /\ \A o \in RedisKeys \ {rk} : HashAt(o)' = HashAt(o)
            /\ \E alive \in AliveChoices(HashAt(rk), clock) :
                  LET r == script(IF alive THEN HashAt(rk) ELSE <<>>, cfg.capacity,
                                  cfg.refill_rate, cfg.refill_period, req[p].now)
                  IN \/ /\ resp'.allow = AllowResult(FALSE, One(r.allowed))
                        /\ HashAt(rk)' = StoredHash(r, clock)
                     \/ /\ resp'.allow = AllowResult(TRUE, 0)
                        /\ HashAt(rk)' = HashAt(rk)]_vars

\* A call on k1 is admitted while the hash of "global" is empty of tokens
\* and is left so.
KeysIndependentWitness ==
    /\ resp.pc = "done" /\ resp.op = "Allow" /\ resp.key = "k1"
    /\ resp.allow = [allowed |-> TRUE, err |-> ""]
    /\ bucket # <<>> /\ bucket[1].tokens = 0 /\ bucket[1].touched = clock
    /\ keyed[KeyPrefix \o "k1"] # <<>>

-----------------------------------------------------------------------------
(* The limiter configured with a refill period below one second.           *)

InitSubSecond ==
    Init /\ cacheOn = TRUE /\ cfg \in {SubSecondConfig, SmallConfig, LongConfig}

SpecSubSecond == InitSubSecond /\ [][NextKeys]_vars

\* C36 as stated: whatever the configuration (capacity >= 1, a positive
\* RefillPeriod, of less than a second too), a call of Allow that follows
\* capacity admitted calls of its instant on the key is refused.
BucketEnforced ==
    (/\ AllowReturned /\ resp.key = "global"
     /\ hist.burst.phase = 1 /\ clock = hist.burst.t0
     /\ hist.burst.calls = cfg.capacity + 1)
        => ~resp.allow.allowed

\* With a period of a whole number of seconds the call is refused.
WholeSecondsEnforced ==
    cfg.refill_period >= 1 => BucketEnforced

\* The call after capacity admitted ones has returned, under a period of
\* two seconds.
WholeSecondsRefusal ==
    /\ cfg = LongConfig
    /\ AllowReturned /\ resp.key = "global"
    /\ resp.allow = [allowed |-> FALSE, err |-> ""]
    /\ hist.burst.phase = 1 /\ clock = hist.burst.t0
    /\ hist.burst.calls = cfg.capacity + 1

-----------------------------------------------------------------------------
(* The process from main's call of Server.Run to its return, a server      *)
(* without a cache, and clients that resolve c1 over gRPC while it serves. *)

NextShutdown ==
    \/ ServerRun
    \/ SignalCancel
    \/ MainCtxDone
    \/ MainWaitReturns
    \/ StopperBegins
    \/ StopperEnds
    \/ CloserRuns
    \/ \E p \in Procs :
          sd.serving /\ StartIn(p, {"grpc"}, {"GetOriginalURL"}, {}, {"c1"})
    \/ \E p \in Procs : HandleResolve(p)
    \/ \E p \in Procs : LoadCache(p)

InitShutdown ==
    /\ urls \in {EmptyTable, insertURL(EmptyTable, "c1", parseURL(UrlA).url, 0).tbl}
    /\ cache = EmptyCache
    /\ cacheOn = FALSE
    /\ warm = <<>>
    /\ req = [p \in Procs |-> IdleReq]
    /\ bucket = <<>>
    /\ keyed = NoKeyed
    /\ sd = Starting
    /\ cfg = DefaultConfig
    /\ clock = 0
    /\ dbClock = 0
    /\ resp = NoResp
    /\ hist = InitHist

SpecShutdown == InitShutdown /\ [][NextShutdown]_vars

\* C39: main has returned from wg.Wait only if the context was cancelled,
\* GracefulStop has returned and the gateway connection is closed, each of
\* the two shutdown goroutines having run once; main waits in wg.Wait, and
\* either goroutine acts, only after the cancellation; and neither
\* goroutine runs twice.
ShutdownOrder ==
    /\ sd.main = "returned" =>
          /\ sd.ctx = "cancelled"
          /\ sd.stopped /\ sd.closed
          /\ sd.stops = 1 /\ sd.closes = 1
          /\ sd.wg = 0
    /\ sd.main \in {"wait", "returned"} => sd.ctx = "cancelled"
    /\ (sd.stopper \in {"stopping", "done"} \/ sd.closer = "done")
          => sd.ctx = "cancelled"
    /\ sd.stops <= 1 /\ sd.closes <= 1
    /\ sd.wg >= 0

\* main has returned from wg.Wait after both goroutines have finished.
ShutdownOrderWitness ==
    /\ sd.main = "returned"
    /\ sd.stopped /\ sd.closed

\* GracefulStop is waiting for an RPC in progress while main is in wg.Wait
\* and the gateway connection is already closed.
StopWaitsForRPC ==
    /\ sd.main = "wait" /\ sd.stopper = "stopping" /\ sd.closed
    /\ \E p \in Procs : req[p].pc # "idle"

====
